---------------------------- MODULE Spec2Model ----------------------------
(***************************************************************************)
(* Model of the Shiny Wordle example, srcjs/src/examples/wordle/app.py.    *)
(*                                                                         *)
(* A Python str and a Python list of one-character strings are both        *)
(* written as a TLA+ sequence of one-character strings, so "".join(l) and  *)
(* list(s) keep the sequence of characters they are given.                 *)
(*                                                                         *)
(* Spec      : one session of server(): the four reactive values and the   *)
(*             effects that the Back, Enter, letter and new_game inputs    *)
(*             trigger, one input event at a time.                         *)
(* SpecEval  : check_word applied to every pair of words over the model's  *)
(*             letters up to MaxLen characters.                            *)
(***************************************************************************)
EXTENDS Integers, Sequences, FiniteSets, TLC

VARIABLES
    target_word,            \* reactive.Value, line 105
    all_guesses,            \* reactive.Value, line 106: sequence of GuessInfo
    finished,               \* reactive.Value, line 107
    current_guess_letters,  \* reactive.Value, line 108
    new_game_button,        \* the page shows the "New Game" button (new_game_ui)
    raised,                 \* an effect ended in an exception (check_word's raise)
    last_event,             \* history variable: the input event handled last
    pre,                    \* history variable: the game state before that event
    ev_pc,                  \* SpecEval: "call", "returned" or "raised"
    ev_guess,               \* SpecEval: check_word's guess_str
    ev_target,              \* SpecEval: check_word's target_str
    ev_result               \* SpecEval: the GuessInfo returned

game_vars == <<target_word, all_guesses, finished, current_guess_letters>>
session_vars == <<target_word, all_guesses, finished, current_guess_letters,
                  new_game_button, raised, last_event, pre>>
eval_vars == <<ev_pc, ev_guess, ev_target, ev_result>>
vars == <<target_word, all_guesses, finished, current_guess_letters,
          new_game_button, raised, last_event, pre,
          ev_pc, ev_guess, ev_target, ev_result>>

---------------------------------------------------------------------------
(* Bounds of the model *)

\* How many of the keyboard's letter keys the model presses.
NumKeys == 3

\* The Enter effect is not taken once a game holds this many guesses
\* (the program itself sets no limit on the number of guesses).
MaxHistory == 2

\* SpecEval: the longest guess_str and target_str given to check_word.
MaxLen == 3

---------------------------------------------------------------------------
(* Keys and letters *)

\* Letter keys of the keyboard (a subset of `keys`), and str.lower() on them.
KeyOrder == <<"A", "B", "C", "D", "E">>
LowerOrder == <<"a", "b", "c", "d", "e">>

Keys == {KeyOrder[i] : i \in 1..NumKeys}

\* key.lower()
Lower(key) == LowerOrder[CHOOSE i \in 1..Len(KeyOrder) : KeyOrder[i] = key]

Letters == {Lower(k) : k \in Keys}

\* Every lowercase letter of the model, pressed or not.
LowerSet == {LowerOrder[i] : i \in 1..Len(LowerOrder)}

\* The constant in `if len(cur_letters) >= 5`.
KeyLimit == 5

---------------------------------------------------------------------------
(* words module: targets and all. Lowercase words of one fixed length, 5,  *)
(* targets a subset of all.                                                *)

words_targets ==
    { <<"a", "b", "b", "c", "a">>,
      <<"a", "a", "b", "b", "a">> }

words_all ==
    words_targets \cup { <<"b", "a", "b", "b", "c">> }

---------------------------------------------------------------------------
(* check_word *)

Seqs(S, n) == UNION {[1..k -> S] : k \in 0..n}

\* Five-letter words check_word is also given: "trace", "crane", "babes",
\* "abbey" and "speed".
ScenarioWords ==
    { <<"t", "r", "a", "c", "e">>,
      <<"c", "r", "a", "n", "e">>,
      <<"b", "a", "b", "e", "s">>,
      <<"a", "b", "b", "e", "y">>,
      <<"s", "p", "e", "e", "d">> }

\* The strings check_word is called with in SpecEval.
EvalWords == Seqs(Letters, MaxLen) \cup ScenarioWords

\* list.remove(x): drop the first occurrence of x (x is known to be in l).
ListRemove_Noop(l, x) == l

ListRemove(l, x) ==
    LET k == CHOOSE i \in 1..Len(l) :
                 l[i] = x /\ \A j \in 1..(i - 1) : l[j] # x
    IN  [i \in 1..(Len(l) - 1) |-> IF i < k THEN l[i] ELSE l[i + 1]]

InList(x, l) == \E i \in 1..Len(l) : l[i] = x

\* First pass, lines 348-352: the result list after it.
FirstPassResult_NoCorrect(guess, target) ==
    [i \in 1..Len(guess) |-> "not-in-word"]

FirstPassResult(guess, target) ==
    [i \in 1..Len(guess) |->
        IF guess[i] = target[i] THEN "correct" ELSE "not-in-word"]

\* First pass, lines 348-352: the remaining list after it, in target order.
RECURSIVE FirstPassRemaining_AllTarget(_, _, _)
FirstPassRemaining_AllTarget(guess, target, i) ==
    IF i > Len(guess) THEN <<>>
    ELSE <<target[i]>> \o FirstPassRemaining_AllTarget(guess, target, i + 1)

RECURSIVE FirstPassRemaining(_, _, _)
FirstPassRemaining(guess, target, i) ==
    IF i > Len(guess) THEN <<>>
    ELSE IF guess[i] = target[i]
         THEN FirstPassRemaining(guess, target, i + 1)
         ELSE <<target[i]>> \o FirstPassRemaining(guess, target, i + 1)

\* The literal written into result by the second pass.
SecondPassMark_Correct == "correct"

SecondPassMark == "in-word"

\* Second pass, lines 356-359, from index i on, with the lists as they are.
RECURSIVE SecondPass_RightToLeft(_, _, _, _, _)
SecondPass_RightToLeft(guess, target, result, remaining, i) ==
    LET k == Len(guess) - i + 1 IN
    IF i > Len(guess) THEN result
    ELSE IF guess[k] # target[k] /\ InList(guess[k], remaining)
         THEN SecondPass_RightToLeft(guess, target,
                                     [result EXCEPT ![k] = SecondPassMark],
                                     ListRemove(remaining, guess[k]), i + 1)
         ELSE SecondPass_RightToLeft(guess, target, result, remaining, i + 1)

RECURSIVE SecondPass(_, _, _, _, _)
SecondPass(guess, target, result, remaining, i) ==
    IF i > Len(guess) THEN result
    ELSE IF guess[i] # target[i] /\ InList(guess[i], remaining)
         THEN SecondPass(guess, target,
                         [result EXCEPT ![i] = SecondPassMark],
                         ListRemove(remaining, guess[i]), i + 1)
         ELSE SecondPass(guess, target, result, remaining, i + 1)

\* all(x == "correct" for x in result)
Win_Any(result) == \E i \in 1..Len(result) : result[i] = "correct"

Win(result) == \A i \in 1..Len(result) : result[i] = "correct"

\* check_word when the lengths match: the GuessInfo it returns.
check_word(guess_str, target_str) ==
    LET result == SecondPass(guess_str, target_str,
                             FirstPassResult(guess_str, target_str),
                             FirstPassRemaining(guess_str, target_str, 1), 1)
    IN  [word        |-> guess_str,
         letters     |-> guess_str,
         match_types |-> result,
         win         |-> Win(result)]

\* check_word raises when the lengths differ, lines 341-342.
check_word_raises(guess_str, target_str) == Len(guess_str) # Len(target_str)

---------------------------------------------------------------------------
(* used_letters *)

\* letter_matches: dict[str, LetterMatch] = {}, line 167.
EmptyDict == [x \in {} |-> "not-in-word"]

\* letter_matches[letter] = match_type
DictSet(d, k, v) == [x \in DOMAIN d \cup {k} |-> IF x = k THEN v ELSE d[x]]

\* Lines 178-187: the entry of a letter already present, after match_type.
Upgrade_Overwrite(prev_match_type, match_type) == match_type

Upgrade(prev_match_type, match_type) ==
    IF match_type = "correct" /\ prev_match_type \in {"not-in-word", "in-word"}
    THEN match_type
    ELSE IF match_type = "in-word" /\ prev_match_type \in {"not-in-word"}
    THEN match_type
    ELSE prev_match_type

\* Inner loop, lines 171-187, over one guess from index i on.
RECURSIVE UsedLettersGuess(_, _, _)
UsedLettersGuess(letter_matches, guess, i) ==
    IF i > Len(guess.letters) THEN letter_matches
    ELSE LET letter == guess.letters[i]
             match_type == guess.match_types[i]
         IN  IF letter \notin DOMAIN letter_matches
             THEN UsedLettersGuess(DictSet(letter_matches, letter, match_type),
                                   guess, i + 1)
             ELSE UsedLettersGuess(
                      DictSet(letter_matches, letter,
                              Upgrade(letter_matches[letter], match_type)),
                      guess, i + 1)

\* Outer loop, lines 170-189, over the guesses from index g on.
RECURSIVE UsedLettersFrom(_, _, _)
UsedLettersFrom(letter_matches, guesses, g) ==
    IF g > Len(guesses) THEN letter_matches
    ELSE UsedLettersFrom(UsedLettersGuess(letter_matches, guesses[g], 1),
                         guesses, g + 1)

\* used_letters() for a given value of all_guesses.
used_letters_of(guesses) == UsedLettersFrom(EmptyDict, guesses, 1)

---------------------------------------------------------------------------
(* The session *)

GameState ==
    [target   |-> target_word,
     history  |-> all_guesses,
     pending  |-> current_guess_letters,
     finished |-> finished]

\* Bookkeeping of a handled input event; check_word's own variables stay.
Observe(ev) ==
    /\ pre' = GameState
    /\ last_event' = ev
    /\ UNCHANGED eval_vars

\* server(), lines 105-108.
Init ==
    /\ target_word \in words_targets
    /\ all_guesses = <<>>
    /\ finished = FALSE
    /\ current_guess_letters = <<>>
    /\ new_game_button = FALSE
    /\ raised = FALSE
    /\ last_event = "init"
    /\ pre = GameState
    /\ ev_pc = "idle"
    /\ ev_guess = <<>>
    /\ ev_target = <<>>
    /\ ev_result = <<>>

\* reset_game(), lines 110-113.
reset_game_KeepFinished ==
    /\ target_word' \in words_targets
    /\ all_guesses' = <<>>
    /\ UNCHANGED finished

reset_game_KeepGuesses ==
    /\ target_word' \in words_targets
    /\ UNCHANGED all_guesses
    /\ finished' = FALSE

reset_game ==
    /\ target_word' \in words_targets
    /\ all_guesses' = <<>>
    /\ finished' = FALSE

\* The effect on input.Back, lines 222-230.
Back_PopFirst ==
    /\ ~raised
    /\ IF finished
       THEN UNCHANGED current_guess_letters
       ELSE IF Len(current_guess_letters) > 0
            THEN current_guess_letters' = Tail(current_guess_letters)
            ELSE UNCHANGED current_guess_letters
    /\ UNCHANGED <<target_word, all_guesses, finished>>
    /\ UNCHANGED <<new_game_button, raised>>
    /\ Observe("deleteLetter")

Back ==
    /\ ~raised
    /\ IF finished
       THEN UNCHANGED current_guess_letters
       ELSE IF Len(current_guess_letters) > 0
            THEN current_guess_letters' =
                     SubSeq(current_guess_letters, 1, Len(current_guess_letters) - 1)
            ELSE UNCHANGED current_guess_letters
    /\ UNCHANGED <<target_word, all_guesses, finished>>
    /\ UNCHANGED <<new_game_button, raised>>
    /\ Observe("deleteLetter")

\* The effect on input.Enter, lines 232-263, with the guess it reads.
EnterBody_NoWordCheck(guess) ==
    IF check_word_raises(guess, target_word)
    THEN /\ raised' = TRUE
         /\ UNCHANGED game_vars
    ELSE LET check_result == check_word(guess, target_word) IN
         /\ all_guesses' = Append(all_guesses, check_result)
         /\ finished' = (IF check_result.win THEN TRUE ELSE finished)
         /\ current_guess_letters' = <<>>
         /\ UNCHANGED <<target_word, raised>>

EnterBody_KeepLetters(guess) ==
    IF guess \notin words_all
    THEN UNCHANGED <<game_vars, raised>>
    ELSE IF check_word_raises(guess, target_word)
    THEN /\ raised' = TRUE
         /\ UNCHANGED game_vars
    ELSE LET check_result == check_word(guess, target_word) IN
         /\ all_guesses' = Append(all_guesses, check_result)
         /\ finished' = (IF check_result.win THEN TRUE ELSE finished)
         /\ UNCHANGED <<current_guess_letters, target_word, raised>>

EnterBody_FinishOnAnyGuess(guess) ==
    IF guess \notin words_all
    THEN UNCHANGED <<game_vars, raised>>
    ELSE IF check_word_raises(guess, target_word)
    THEN /\ raised' = TRUE
         /\ UNCHANGED game_vars
    ELSE LET check_result == check_word(guess, target_word) IN
         /\ all_guesses' = Append(all_guesses, check_result)
         /\ finished' = TRUE
         /\ current_guess_letters' = <<>>
         /\ UNCHANGED <<target_word, raised>>

EnterBody_FinishOnLoss(guess) ==
    IF guess \notin words_all
    THEN UNCHANGED <<game_vars, raised>>
    ELSE IF check_word_raises(guess, target_word)
    THEN /\ raised' = TRUE
         /\ UNCHANGED game_vars
    ELSE LET check_result == check_word(guess, target_word) IN
         /\ all_guesses' = Append(all_guesses, check_result)
         /\ finished' = (IF check_result.win THEN finished ELSE TRUE)
         /\ current_guess_letters' = <<>>
         /\ UNCHANGED <<target_word, raised>>

EnterBody_Prepend(guess) ==
    IF guess \notin words_all
    THEN UNCHANGED <<game_vars, raised>>
    ELSE IF check_word_raises(guess, target_word)
    THEN /\ raised' = TRUE
         /\ UNCHANGED game_vars
    ELSE LET check_result == check_word(guess, target_word) IN
         /\ all_guesses' = <<check_result>> \o all_guesses
         /\ finished' = (IF check_result.win THEN TRUE ELSE finished)
         /\ current_guess_letters' = <<>>
         /\ UNCHANGED <<target_word, raised>>

EnterBody(guess) ==
    IF guess \notin words_all
    THEN UNCHANGED <<game_vars, raised>>
    ELSE IF check_word_raises(guess, target_word)
    THEN /\ raised' = TRUE
         /\ UNCHANGED game_vars
    ELSE LET check_result == check_word(guess, target_word) IN
         /\ all_guesses' = Append(all_guesses, check_result)
         /\ finished' = (IF check_result.win THEN TRUE ELSE finished)
         /\ current_guess_letters' = <<>>
         /\ UNCHANGED <<target_word, raised>>

Enter ==
    /\ ~raised
    /\ current_guess_letters \in words_all => Len(all_guesses) < MaxHistory
    /\ EnterBody(current_guess_letters)
    /\ UNCHANGED new_game_button
    /\ Observe("submitGuess")

\* The effect make_key_listener(key) creates, lines 268-278: the letters it
\* leaves in current_guess_letters.
KeyListenerLetters_Limit6(key) ==
    IF finished THEN current_guess_letters
    ELSE IF Len(current_guess_letters) >= KeyLimit + 1 THEN current_guess_letters
    ELSE Append(current_guess_letters, Lower(key))

KeyListenerLetters_NoLower(key) ==
    IF finished THEN current_guess_letters
    ELSE IF Len(current_guess_letters) >= KeyLimit THEN current_guess_letters
    ELSE Append(current_guess_letters, key)

KeyListenerLetters_NoFinishedCheck(key) ==
    IF Len(current_guess_letters) >= KeyLimit THEN current_guess_letters
    ELSE Append(current_guess_letters, Lower(key))

KeyListenerLetters(key) ==
    IF finished THEN current_guess_letters
    ELSE IF Len(current_guess_letters) >= KeyLimit THEN current_guess_letters
    ELSE Append(current_guess_letters, Lower(key))

KeyListener(key) ==
    /\ ~raised
    /\ current_guess_letters' = KeyListenerLetters(key)
    /\ UNCHANGED <<target_word, all_guesses, finished>>
    /\ UNCHANGED <<new_game_button, raised>>
    /\ Observe("appendLetter")

\* The effect on input.new_game, lines 327-330. The input comes from the
\* "New Game" button, so the page must show it.
NewGame ==
    /\ ~raised
    /\ new_game_button
    /\ reset_game
    /\ UNCHANGED current_guess_letters
    /\ UNCHANGED <<new_game_button, raised>>
    /\ Observe("newGame")

\* new_game_ui, lines 321-325: the output is rendered again after finished
\* changed, and the page then shows the button iff finished.
RenderNewGameUI ==
    /\ ~raised
    /\ new_game_button # finished
    /\ new_game_button' = finished
    /\ UNCHANGED <<game_vars, raised>>
    /\ Observe("render")

\* used_letters, the reactive.Calc of lines 163-189: a value derived from
\* all_guesses.
used_letters == used_letters_of(all_guesses)

\* An unhandled exception in an effect ends the session: nothing follows it.
Next ==
    \/ \E key \in Keys : KeyListener(key)
    \/ Back
    \/ Enter
    \/ NewGame
    \/ RenderNewGameUI

Spec == Init /\ [][Next]_vars

---------------------------------------------------------------------------
(* check_word on its own *)

InitEval ==
    /\ target_word = CHOOSE t \in words_targets : TRUE
    /\ all_guesses = <<>>
    /\ finished = FALSE
    /\ current_guess_letters = <<>>
    /\ new_game_button = FALSE
    /\ raised = FALSE
    /\ last_event = "init"
    /\ pre = GameState
    /\ ev_pc = "call"
    /\ ev_guess \in EvalWords
    /\ ev_target \in EvalWords
    /\ ev_result = <<>>

CheckWordRaises ==
    /\ ev_pc = "call"
    /\ check_word_raises(ev_guess, ev_target)
    /\ ev_pc' = "raised"
    /\ UNCHANGED <<ev_guess, ev_target, ev_result>>
    /\ UNCHANGED session_vars

CheckWordReturns ==
    /\ ev_pc = "call"
    /\ ~check_word_raises(ev_guess, ev_target)
    /\ ev_result' = check_word(ev_guess, ev_target)
    /\ ev_pc' = "returned"
    /\ UNCHANGED <<ev_guess, ev_target>>
    /\ UNCHANGED session_vars

NextEval ==
    \/ CheckWordRaises
    \/ CheckWordReturns

SpecEval == InitEval /\ [][NextEval]_vars


---------------------------------------------------------------------------
(* Properties of the session (Spec) *)

LastGuess(history) == history[Len(history)]

Positions(w) == 1..Len(w)

LettersOf(w) == {w[i] : i \in Positions(w)}

\* C1: in every reachable state, finished is true iff all_guesses is
\* non-empty and its last GuessInfo has win = TRUE.
C1_FinishedIffLastGuessWon ==
    finished <=> (Len(all_guesses) > 0 /\ LastGuess(all_guesses).win)

\* A game won by its second guess, after a first guess that did not win.
C1_Witness ==
    /\ finished
    /\ Len(all_guesses) = 2
    /\ ~all_guesses[1].win
    /\ all_guesses[2].win

\* C2: an appendLetter, deleteLetter or submitGuess event handled while
\* finished is true leaves target, history, pending and finished as they were.
C2_NoOpWhileFinished ==
    (pre.finished /\ last_event \in {"appendLetter", "deleteLetter", "submitGuess"})
        => GameState = pre

\* Enter was pressed in a game already won.
C2_Witness ==
    /\ pre.finished
    /\ last_event = "submitGuess"
    /\ Len(pre.history) > 0

\* C3: after newGame, in whatever state it was invoked, target is a target
\* word, history is empty, pending is empty and finished is false.
C3_NewGameResetsAll ==
    last_event = "newGame" =>
        /\ target_word \in words_targets
        /\ all_guesses = <<>>
        /\ current_guess_letters = <<>>
        /\ finished = FALSE

\* C4: in every reachable state, pending is no longer than the target word.
C4_PendingWithinTarget ==
    Len(current_guess_letters) <= Len(target_word)

\* A letter key pressed with pending already as long as the target: ignored.
C4_Witness ==
    /\ last_event = "appendLetter"
    /\ Len(pre.pending) = Len(pre.target)
    /\ Len(current_guess_letters) = Len(target_word)
    /\ Len(target_word) = 5

\* C5: submitGuess while not finished, with pending not a valid guess word
\* (empty and too short included), leaves the whole state as it was and
\* raises no error.
C5_InvalidGuessIsNoOp ==
    (last_event = "submitGuess" /\ ~pre.finished /\ pre.pending \notin words_all)
        => (GameState = pre /\ ~raised)

\* Enter pressed on five letters that form no valid guess word.
C5_Witness ==
    /\ last_event = "submitGuess"
    /\ ~pre.finished
    /\ pre.pending \notin words_all
    /\ Len(pre.pending) = 5

\* C6: submitGuess while not finished, with pending a valid guess word, is one
\* step after which history is the old history with check_word(pending,
\* target) appended, finished is that GuessInfo's win, pending is empty and
\* target is unchanged.
C6_ValidGuessTransition ==
    (last_event = "submitGuess" /\ ~pre.finished /\ pre.pending \in words_all)
        => /\ ~raised
           /\ all_guesses = Append(pre.history, check_word(pre.pending, pre.target))
           /\ finished = check_word(pre.pending, pre.target).win
           /\ current_guess_letters = <<>>
           /\ target_word = pre.target

\* A valid guess that did not win, submitted as the second guess of a game.
C6_Witness ==
    /\ last_event = "submitGuess"
    /\ ~pre.finished
    /\ pre.pending \in words_all
    /\ pre.pending # pre.target
    /\ Len(all_guesses) = 2
    /\ ~finished

\* C7: finished goes from false to true only in a submitGuess step that
\* appends a winning GuessInfo, from true to false only in a newGame step, and
\* no appendLetter or deleteLetter step changes it.
C7_FinishedTransitions ==
    [][ /\ (~finished /\ finished') =>
              /\ last_event' = "submitGuess"
              /\ Len(all_guesses') = Len(all_guesses) + 1
              /\ LastGuess(all_guesses').win
        /\ (finished /\ ~finished') => last_event' = "newGame"
        /\ last_event' \in {"appendLetter", "deleteLetter"} => finished' = finished
      ]_vars

\* A newGame step that took a won game back to in progress.
C7_Witness ==
    /\ last_event = "newGame"
    /\ pre.finished
    /\ Len(pre.history) > 0
    /\ ~finished

Strength(m) ==
    CASE m = "not-in-word" -> 0
      [] m = "in-word"     -> 1
      [] m = "correct"     -> 2

\* The match types a history records for letter L, at any position of any guess.
Observed(history, L) ==
    UNION { {history[g].match_types[i] :
                i \in {j \in 1..Len(history[g].letters) : history[g].letters[j] = L}} :
            g \in 1..Len(history) }

IsStrongest(m, S) == m \in S /\ \A o \in S : Strength(o) <= Strength(m)

\* C12: used_letters holds exactly the letters guessed in all_guesses, each
\* with the strongest match type (not-in-word < in-word < correct) recorded
\* for it at any position of any guess; and when a guess is appended to the
\* history no letter leaves the mapping or gets a weaker match type.
C12_HintsStrongestAndMonotone ==
    LET hints == used_letters
        before == used_letters_of(pre.history)
    IN  /\ \A L \in LowerSet :
              (L \in DOMAIN hints) <=> (Observed(all_guesses, L) # {})
        /\ \A L \in DOMAIN hints :
              IsStrongest(hints[L], Observed(all_guesses, L))
        /\ (last_event = "submitGuess" /\ Len(all_guesses) = Len(pre.history) + 1)
              => \A L \in DOMAIN before :
                    /\ L \in DOMAIN hints
                    /\ Strength(before[L]) <= Strength(hints[L])

\* A second guess that raised one letter's hint and, for another letter,
\* recorded a match type weaker than the hint it already had.
C12_Witness ==
    /\ last_event = "submitGuess"
    /\ Len(all_guesses) = 2
    /\ Len(pre.history) = 1
    /\ \E L \in DOMAIN used_letters_of(pre.history) :
          Strength(used_letters_of(pre.history)[L]) < Strength(used_letters[L])
    /\ \E L \in DOMAIN used_letters_of(pre.history) :
          \E o \in Observed(<<all_guesses[2]>>, L) :
              Strength(o) < Strength(used_letters_of(pre.history)[L])
    /\ \E L \in LowerSet : L \notin DOMAIN used_letters

\* C13: no Enter effect ends in check_word's length exception: whenever Enter
\* gets past the word-list check, the guess is as long as the target.
C13_NoLengthMismatch ==
    /\ ~raised
    /\ (last_event = "submitGuess" /\ pre.pending \in words_all)
          => Len(pre.pending) = Len(pre.target)

\* Enter called check_word and appended its result.
C13_Witness ==
    /\ last_event = "submitGuess"
    /\ pre.pending \in words_all
    /\ Len(all_guesses) = Len(pre.history) + 1
    /\ LastGuess(all_guesses).word = pre.pending

\* C14: a letter-key step is a no-op if finished or if pending is as long as
\* the target; otherwise it appends the key's lowercase letter at the end of
\* pending and leaves target, history and finished unchanged.
C14_AppendLetter ==
    [][ \A key \in Keys :
          KeyListener(key) =>
              IF finished \/ Len(current_guess_letters) = Len(target_word)
              THEN UNCHANGED game_vars
              ELSE /\ Len(current_guess_letters') = Len(current_guess_letters) + 1
                   /\ \A i \in 1..Len(current_guess_letters) :
                         current_guess_letters'[i] = current_guess_letters[i]
                   /\ current_guess_letters'[Len(current_guess_letters')] \in LowerSet
                   /\ \E i \in 1..Len(KeyOrder) :
                         /\ KeyOrder[i] = key
                         /\ current_guess_letters'[Len(current_guess_letters')]
                                = LowerOrder[i]
                   /\ UNCHANGED <<target_word, all_guesses, finished>>
      ]_vars

\* A letter appended to a pending that already held letters.
C14_Witness ==
    /\ last_event = "appendLetter"
    /\ ~pre.finished
    /\ Len(pre.pending) = 2
    /\ Len(current_guess_letters) = 3
    /\ current_guess_letters[3] # current_guess_letters[2]

\* C15: a Back step is a no-op if finished or if pending is empty; otherwise
\* it removes the last character of pending, keeps the rest in order, and
\* leaves target, history and finished unchanged; so a Back step right after
\* a letter-key step that appended a letter restores the state before it.
C15_DeleteLetter ==
    [][ last_event' = "deleteLetter" =>
          /\ IF finished \/ current_guess_letters = <<>>
             THEN UNCHANGED game_vars
             ELSE /\ Len(current_guess_letters') = Len(current_guess_letters) - 1
                  /\ \A i \in 1..Len(current_guess_letters') :
                        current_guess_letters'[i] = current_guess_letters[i]
                  /\ UNCHANGED <<target_word, all_guesses, finished>>
          /\ (last_event = "appendLetter" /\ GameState # pre) => GameState' = pre
      ]_vars

\* Back removed the last of three letters.
C15_Witness ==
    /\ last_event = "deleteLetter"
    /\ ~pre.finished
    /\ Len(pre.pending) = 3
    /\ Len(current_guess_letters) = 2
    /\ pre.pending[1] # pre.pending[3]

\* C17: in every step that is not a newGame step, target is unchanged and the
\* old history is a prefix of the new one.
C17_HistoryAppendOnly ==
    [][ last_event' # "newGame" =>
          /\ target_word' = target_word
          /\ Len(all_guesses') >= Len(all_guesses)
          /\ \A i \in 1..Len(all_guesses) : all_guesses'[i] = all_guesses[i]
      ]_vars

\* A second guess appended behind a different first one.
C17_Witness ==
    /\ last_event = "submitGuess"
    /\ Len(pre.history) = 1
    /\ Len(all_guesses) = 2
    /\ all_guesses[1] = pre.history[1]
    /\ all_guesses[2] # all_guesses[1]

\* C18: finished implies pending is empty, and Enter pressed in a finished
\* game adds no guess (the empty word being no valid guess).
C18_FinishedImpliesNoPending ==
    /\ finished => current_guess_letters = <<>>
    /\ <<>> \notin words_all
    /\ (pre.finished /\ last_event = "submitGuess") => all_guesses = pre.history

\* A letter key pressed in a won game: pending is still empty.
C18_Witness ==
    /\ finished
    /\ pre.finished
    /\ last_event = "appendLetter"
    /\ current_guess_letters = <<>>

\* C19: for every letter L in used_letters, the hint is not-in-word iff L
\* does not occur in the current target.
C19_NotInWordIffAbsent ==
    LET hints == used_letters
    IN  \A L \in DOMAIN hints :
            (hints[L] = "not-in-word") <=> (L \notin LettersOf(target_word))

\* A guessed letter of the target with a position marked not-in-word
\* (its occurrences used up) beside a guessed letter absent from the target.
C19_Witness ==
    /\ \E L \in DOMAIN used_letters :
          /\ L \in LettersOf(target_word)
          /\ "not-in-word" \in Observed(all_guesses, L)
          /\ used_letters[L] # "not-in-word"
    /\ \E L \in DOMAIN used_letters :
          /\ L \notin LettersOf(target_word)
          /\ used_letters[L] = "not-in-word"

---------------------------------------------------------------------------
(* Properties of check_word (SpecEval) *)

Occurrences(w, L) == Cardinality({i \in Positions(w) : w[i] = L})

Marked(r, L) ==
    Cardinality({i \in Positions(r.letters) :
                    /\ r.letters[i] = L
                    /\ r.match_types[i] \in {"correct", "in-word"}})

\* C8: for guess and target of equal length, win is true iff every match is
\* "correct", and that iff guess equals target letter for letter.
C8_WinIffAllCorrectIffEqual ==
    ev_pc = "returned" =>
        /\ ev_result.win <=>
               (\A i \in Positions(ev_guess) : ev_result.match_types[i] = "correct")
        /\ (\A i \in Positions(ev_guess) : ev_result.match_types[i] = "correct")
               <=> (ev_guess = ev_target)

\* check_word returned a win for a word of three letters.
C8_Witness ==
    /\ ev_pc = "returned"
    /\ ev_result.win
    /\ Len(ev_guess) = 3

\* C9: for guess and target of equal length and every letter L, the positions
\* of the guess holding L that are marked "correct" or "in-word" are no more
\* than the occurrences of L in target.
C9_LetterCountConservation ==
    ev_pc = "returned" =>
        \A L \in LettersOf(ev_guess) \cup LettersOf(ev_target) :
            Marked(ev_result, L) <= Occurrences(ev_target, L)

\* A letter twice in the guess and once in the target, marked once.
C9_Witness ==
    /\ ev_pc = "returned"
    /\ \E L \in Letters :
          /\ Occurrences(ev_guess, L) = 2
          /\ Occurrences(ev_target, L) = 1
          /\ Marked(ev_result, L) = 1

\* C10: for guess and target of equal length and every index i, match i is
\* "correct" iff guess[i] = target[i].
C10_CorrectIffSamePosition ==
    ev_pc = "returned" =>
        \A i \in Positions(ev_guess) :
            (ev_guess[i] = ev_target[i]) <=> (ev_result.match_types[i] = "correct")

\* An exact match at one position while the same letter, elsewhere in the
\* guess, finds no occurrence left in the target.
C10_Witness ==
    /\ ev_pc = "returned"
    /\ \E i, j \in Positions(ev_guess) :
          /\ i # j
          /\ ev_guess[i] = ev_guess[j]
          /\ ev_guess[i] = ev_target[i]
          /\ ev_result.match_types[i] = "correct"
          /\ ev_result.match_types[j] = "not-in-word"


\* C11 as stated: check_word("trace", "crane") marks t not-in-word and r, a,
\* c, e all in-word, with win = FALSE.
C11_TraceCraneAsStated ==
    (ev_pc = "returned"
        /\ ev_guess = <<"t", "r", "a", "c", "e">>
        /\ ev_target = <<"c", "r", "a", "n", "e">>)
        => /\ ev_result.match_types =
                  <<"not-in-word", "in-word", "in-word", "in-word", "in-word">>
           /\ ev_result.win = FALSE

\* C11 (amended): check_word("trace", "crane") marks t not-in-word, r correct,
\* a correct, c in-word and e correct, with win = FALSE.
C11_TraceCrane ==
    (ev_pc = "returned"
        /\ ev_guess = <<"t", "r", "a", "c", "e">>
        /\ ev_target = <<"c", "r", "a", "n", "e">>)
        => /\ ev_result.match_types =
                  <<"not-in-word", "correct", "correct", "in-word", "correct">>
           /\ ev_result.win = FALSE

\* check_word has returned for guess "trace" and target "crane".
C11_Witness ==
    /\ ev_pc = "returned"
    /\ ev_result.word = <<"t", "r", "a", "c", "e">>
    /\ ev_target = <<"c", "r", "a", "n", "e">>

\* C16: among the positions of the guess that hold the same letter and are
\* not exact matches, the ones marked in-word come first, left to right.
C16_LeftmostInWord ==
    ev_pc = "returned" =>
        \A i, j \in Positions(ev_guess) :
            (/\ i < j
             /\ ev_guess[i] = ev_guess[j]
             /\ ev_guess[i] # ev_target[i]
             /\ ev_guess[j] # ev_target[j]
             /\ ev_result.match_types[j] = "in-word")
                => ev_result.match_types[i] = "in-word"

\* A letter at two non-exact positions with one occurrence left in the
\* target: the left one is in-word, the right one not-in-word.
C16_Witness ==
    /\ ev_pc = "returned"
    /\ \E i, j \in Positions(ev_guess) :
          /\ i < j
          /\ ev_guess[i] = ev_guess[j]
          /\ ev_guess[i] # ev_target[i]
          /\ ev_guess[j] # ev_target[j]
          /\ ev_result.match_types[i] = "in-word"
          /\ ev_result.match_types[j] = "not-in-word"

Min(a, b) == IF a <= b THEN a ELSE b

\* C20: for every letter L, the positions of the guess holding L that are
\* marked correct or in-word number exactly the smaller of L's occurrences
\* in the guess and in the target.
C20_MarkedIsMinOfOccurrences ==
    ev_pc = "returned" =>
        \A L \in LettersOf(ev_guess) \cup LettersOf(ev_target) :
            Marked(ev_result, L) =
                Min(Occurrences(ev_guess, L), Occurrences(ev_target, L))

\* A letter three times in the guess and twice in the target, one of them
\* at the same position: two positions marked, one not.
C20_Witness ==
    /\ ev_pc = "returned"
    /\ \E L \in LettersOf(ev_guess) :
          /\ Occurrences(ev_guess, L) = 3
          /\ Occurrences(ev_target, L) = 2
          /\ Marked(ev_result, L) = 2

===========================================================================
